---- MODULE Spec2Model ----
(***************************************************************************)
(* Model of osxcollector/output_filters/opendns/lookup_domains.py:         *)
(* LookupDomainsFilter, the two-stage OpenDNS domain lookup                 *)
(* (categorization, then security info for a selected subset) and the      *)
(* suspicion heuristics applied to the results.                            *)
(*                                                                         *)
(* Python values that may be either a bool or an int (the result of an     *)
(* `a or b` chain) are modelled as records [kind, n] so that `True` and a  *)
(* count stay distinguishable.  Dicts are functions whose DOMAIN is the    *)
(* set of keys present.  Domain names are the ASCII names d1, d2, ...      *)
(* represented by their index.                                             *)
(***************************************************************************)
EXTENDS Integers, Sequences, FiniteSets, TLC

\* ------------------------------------------------------------------ bounds
NumDomains == 2
MaxLabels == 2
ScoreSpread == 1

\* ------------------------------------------------------- class attributes
SUSPICIOUS_CATEGORIES ==
    {"Adware", "Botnet", "Typo Squatting", "Drive-by Downloads/Exploits",
     "Mobile Threats", "High Risk Sites and Locations", "Malware", "Phishing"}

SecurityCheck(key, min, max, threshold) ==
    [key |-> key, min |-> min, max |-> max, threshold |-> threshold]

SECURITY_CHECKS ==
    << SecurityCheck("dga_score", -100, 0, -70),
       SecurityCheck("securerank2", -100, 100, -10),
       SecurityCheck("asn_score", -100, 0, -3),
       SecurityCheck("prefix_score", -100, 0, -12),
       SecurityCheck("rip_score", -100, 0, -25) >>

SECURITY_BAD_KEYS == <<"attack", "threat_type">>

\* ---------------------------------------------------------- Python values
PyTrue == [kind |-> "bool", n |-> 1]
PyFalse == [kind |-> "bool", n |-> 0]
PyNone == [kind |-> "none", n |-> 0]

PyBool(b) == IF b THEN PyTrue ELSE PyFalse

PyInt(i) == [kind |-> "int", n |-> i]

\* truth value of a Python object in a boolean context
Truthy(x) == x.kind # "none" /\ x.n # 0

\* Python's `a or b`: a when a is truthy, otherwise b
PyOr(a, b) == IF Truthy(a) THEN a ELSE b

\* dict.get(key, default)
Get(d, key, default) == IF key \in DOMAIN d THEN d[key] ELSE default

\* the empty dict
EmptyDict == <<>>

Range(s) == {s[i] : i \in DOMAIN s}

\* ------------------------------------------------------------- heuristics
\* `-1 == status or len(security_categories) or any([...])`
is_category_info_suspicious(category_info) ==
    LET status == category_info["status"]
        content_categories == category_info["content_categories"]
        security_categories == category_info["security_categories"]
    IN  PyOr(PyBool(-1 = status),
             PyOr(PyInt(Len(security_categories)),
                  PyBool(\E i \in DOMAIN content_categories :
                             content_categories[i] \in SUSPICIOUS_CATEGORIES)))

should_get_security_info_suspicious_only(domain, category_info) ==
    is_category_info_suspicious(category_info)

should_get_security_info(domain, category_info) ==
    LET status == category_info["status"]
        content_categories == category_info["content_categories"]
        security_categories == category_info["security_categories"]
    IN  PyOr(is_category_info_suspicious(category_info),
             PyBool(0 = status /\ 0 = Len(content_categories)
                               /\ 0 = Len(security_categories)))

\* any([security_info.get(key, None) for key in SECURITY_BAD_KEYS]);
\* the bad-key values are strings, truthy when non-empty
AnyBadKey(security_info) ==
    \E i \in DOMAIN SECURITY_BAD_KEYS :
        /\ SECURITY_BAD_KEYS[i] \in DOMAIN security_info
        /\ security_info[SECURITY_BAD_KEYS[i]] # ""

\* security_info.get(check.key, check.max) <= check.threshold
CheckFails_strict(security_check, security_info) ==
    Get(security_info, security_check.key, security_check.max) < security_check.threshold

CheckFails(security_check, security_info) ==
    Get(security_info, security_check.key, security_check.max) <= security_check.threshold

\* dga_score sometimes has the wrong sign, fix that please
FixDgaSign_always(security_info) ==
    IF "dga_score" \in DOMAIN security_info
    THEN [security_info EXCEPT !["dga_score"] = -1 * @]
    ELSE security_info

FixDgaSign_never(security_info) == security_info

FixDgaSign(security_info) ==
    IF Get(security_info, "dga_score", 0) > 0
    THEN [security_info EXCEPT !["dga_score"] = -1 * @]
    ELSE security_info

is_security_info_suspicious_fixed(security_info) ==
    IF AnyBadKey(security_info) THEN TRUE
    ELSE IF \E i \in DOMAIN SECURITY_CHECKS :
                CheckFails(SECURITY_CHECKS[i], FixDgaSign(security_info)) THEN TRUE
    ELSE IF ~Get(security_info, "found", FALSE) THEN TRUE
    ELSE FALSE

is_security_info_suspicious(security_info) ==
    IF AnyBadKey(security_info) THEN TRUE
    ELSE IF \E i \in DOMAIN SECURITY_CHECKS :
                CheckFails(SECURITY_CHECKS[i], security_info) THEN TRUE
    ELSE IF ~Get(security_info, "found", FALSE) THEN TRUE
    ELSE FALSE

should_store_ioc_info_security_only(category_info, security_info) ==
    security_info["suspicious"]

should_store_ioc_info(category_info, security_info) ==
    PyOr(category_info["suspicious"], security_info["suspicious"])

CheckKeys == {SECURITY_CHECKS[i].key : i \in DOMAIN SECURITY_CHECKS}

BadKeys == Range(SECURITY_BAD_KEYS)

\* the dict built by lines 201-211 from the (already sign-fixed) argument
TrimmedDict_keep_all(security_info) ==
    [k \in DOMAIN security_info \cup {"found"} |->
        IF k = "found" THEN Get(security_info, "found", FALSE) ELSE security_info[k]]

TrimmedDict(security_info) ==
    [k \in {c \in CheckKeys : c \in DOMAIN security_info}
           \cup {b \in BadKeys : b \in DOMAIN security_info}
           \cup {"found"} |->
        IF k = "found" THEN Get(security_info, "found", FALSE) ELSE security_info[k]]

\* return value of _trim_security_result; its argument is left as
\* FixDgaSign(security_info) by the in-place assignment of line 198
trim_security_result(security_info) == TrimmedDict(FixDgaSign(security_info))

\* ----------------------------------------------------------------- inputs
Domains == 1..NumDomains

SeqsUpTo(S, n) == UNION {[1..k -> S] : k \in 0..n}

\* a content category that is not in SUSPICIOUS_CATEGORIES
CleanCategory == "Search Engines"

CategoryInfo(status, content_categories, security_categories) ==
    [status |-> status, content_categories |-> content_categories,
     security_categories |-> security_categories]

\* categorization results the provider answers with during a run
CatSamples ==
    { CategoryInfo(0, <<>>, <<>>),
      CategoryInfo(0, <<CleanCategory>>, <<>>),
      CategoryInfo(1, <<CleanCategory>>, <<>>),
      CategoryInfo(-1, <<>>, <<>>),
      CategoryInfo(1, <<CleanCategory, "Malware">>, <<>>),
      CategoryInfo(1, <<CleanCategory>>, <<"Botnet", "Malware">>) }

\* security results the provider answers with during a run
SecSamples ==
    { EmptyDict,
      [found |-> FALSE],
      [found |-> TRUE, dga_score |-> 80, securerank2 |-> 50, pagerank |-> 3],
      [found |-> TRUE, dga_score |-> -80],
      [found |-> TRUE, securerank2 |-> -10, rip_score |-> -24],
      [found |-> TRUE, attack |-> "ransomware", securerank2 |-> 50],
      [found |-> TRUE, attack |-> "", threat_type |-> "", dga_score |-> -10,
       securerank2 |-> 50, asn_score |-> 0, prefix_score |-> 0, rip_score |-> 0] }

\* ------------------------------------------------------------------ state
VARIABLES
    pc,            \* position of _lookup_iocs: idle, filtered, categorized, security, done
    whitelist,     \* the domains self._whitelist.match_values answers True for
    all_iocs,      \* argument of _lookup_iocs
    iocs,          \* local `iocs` (line 93, reassigned at line 102)
    cat_calls,     \* arguments of the investigate.categorization calls made so far
    sec_calls,     \* arguments of the investigate.security calls made so far
    categorized,   \* local dict `categorized`
    security_raw,  \* the dict investigate.security returned, as returned
    security,      \* local dict `security` (marked at line 107, sign-fixed at line 198)
    stored,        \* domains the loop of line 109 has visited
    threat_info,   \* local dict `threat_info`
    returned,      \* return value of _lookup_iocs once pc = "done"
    fn_pc,         \* position of a stand-alone evaluation of the heuristics
    fn_in,         \* its argument
    fn_susp,       \* value of the classifier
    fn_get,        \* value of _should_get_security_info
    fn_trim,       \* value of _trim_security_result(fn_in)
    fn_trim2       \* value of _trim_security_result(fn_trim)

run_vars == <<pc, whitelist, all_iocs, iocs, cat_calls, sec_calls, categorized,
              security_raw, security, stored, threat_info, returned>>

fn_vars == <<fn_pc, fn_in, fn_susp, fn_get, fn_trim, fn_trim2>>

vars == <<pc, whitelist, all_iocs, iocs, cat_calls, sec_calls, categorized,
          security_raw, security, stored, threat_info, returned,
          fn_pc, fn_in, fn_susp, fn_get, fn_trim, fn_trim2>>

\* self._whitelist.match_values(x)
match_values(x) == x \in whitelist

\* state of a _lookup_iocs run that has not started
RunIdle ==
    /\ pc = "idle"
    /\ all_iocs = {}
    /\ iocs = {}
    /\ cat_calls = <<>>
    /\ sec_calls = <<>>
    /\ categorized = EmptyDict
    /\ security_raw = EmptyDict
    /\ security = EmptyDict
    /\ stored = {}
    /\ threat_info = EmptyDict
    /\ returned = EmptyDict

FnOff ==
    /\ fn_pc = "off"
    /\ fn_in = EmptyDict
    /\ fn_susp = PyNone
    /\ fn_get = PyNone
    /\ fn_trim = EmptyDict
    /\ fn_trim2 = EmptyDict

\* __init__: the whitelist is built from the configuration
Init ==
    /\ whitelist \in SUBSET Domains
    /\ RunIdle
    /\ FnOff

\* --------------------------------------------------------- _lookup_iocs
\* line 93: filter(lambda x: not self._whitelist.match_values(x), all_iocs)
FilterWhitelisted_none(all) == all

FilterWhitelisted(all) == {x \in all : ~match_values(x)}

\* line 102: filter(lambda domain: self._should_get_security_info(...), categorized.keys())
SelectForSecurity(cat) ==
    {domain \in DOMAIN cat : Truthy(should_get_security_info(domain, cat[domain]))}

\* line 115
Link(domain) == <<"https://investigate.opendns.com/domain-view/name/", domain, "/view">>

\* lines 111-116
ThreatRecord(domain) ==
    [domain |-> domain,
     categorization |-> categorized[domain],
     security |-> trim_security_result(security[domain]),
     link |-> Link(domain)]

\* lines 88-93: entry, whitelist filter
Lookup(all) ==
    /\ pc = "idle"
    /\ pc' = "filtered"
    /\ all_iocs' = all
    /\ iocs' = FilterWhitelisted(all)
    /\ UNCHANGED <<whitelist, cat_calls, sec_calls, categorized, security_raw,
                   security, stored, threat_info, returned>>
    /\ UNCHANGED fn_vars

\* line 95: the provider answers with an entry for every domain asked about
Categorization ==
    /\ pc = "filtered"
    /\ pc' = "categorized"
    /\ cat_calls' = Append(cat_calls, iocs)
    /\ \E response \in [iocs -> CatSamples] : categorized' = response
    /\ UNCHANGED <<whitelist, all_iocs, iocs, sec_calls, security_raw,
                   security, stored, threat_info, returned>>
    /\ UNCHANGED fn_vars

CatMarked(domain) == "suspicious" \in DOMAIN categorized[domain]

\* lines 98-99: one iteration of the loop
MarkCategorized(domain) ==
    /\ pc = "categorized"
    /\ domain \in DOMAIN categorized
    /\ ~CatMarked(domain)
    /\ categorized' = [categorized EXCEPT ![domain] =
           @ @@ ("suspicious" :> is_category_info_suspicious(@))]
    /\ UNCHANGED <<pc, whitelist, all_iocs, iocs, cat_calls, sec_calls, security_raw,
                   security, stored, threat_info, returned>>
    /\ UNCHANGED fn_vars

\* the same call issued while the loop of lines 98-99 is still running
Security_early ==
    /\ pc = "categorized"
    /\ pc' = "security"
    /\ iocs' = SelectForSecurity(categorized)
    /\ sec_calls' = Append(sec_calls, iocs')
    /\ \E response \in [iocs' -> SecSamples] :
           /\ security_raw' = response
           /\ security' = response
    /\ UNCHANGED <<whitelist, all_iocs, cat_calls, categorized, stored,
                   threat_info, returned>>
    /\ UNCHANGED fn_vars

\* lines 102-104: select, then the provider answers for every selected domain
Security ==
    /\ pc = "categorized"
    /\ \A domain \in DOMAIN categorized : CatMarked(domain)
    /\ pc' = "security"
    /\ iocs' = SelectForSecurity(categorized)
    /\ sec_calls' = Append(sec_calls, iocs')
    /\ \E response \in [iocs' -> SecSamples] :
           /\ security_raw' = response
           /\ security' = response
    /\ UNCHANGED <<whitelist, all_iocs, cat_calls, categorized, stored,
                   threat_info, returned>>
    /\ UNCHANGED fn_vars

SecMarked(domain) == "suspicious" \in DOMAIN security[domain]

\* lines 106-107: one iteration of the loop
MarkSecurity(domain) ==
    /\ pc = "security"
    /\ domain \in DOMAIN security
    /\ ~SecMarked(domain)
    /\ security' = [security EXCEPT ![domain] =
           @ @@ ("suspicious" :> PyBool(is_security_info_suspicious(@)))]
    /\ UNCHANGED <<pc, whitelist, all_iocs, iocs, cat_calls, sec_calls, categorized,
                   security_raw, stored, threat_info, returned>>
    /\ UNCHANGED fn_vars

\* lines 109-116: one iteration of the loop
Store(domain) ==
    /\ pc = "security"
    /\ \A d \in DOMAIN security : SecMarked(d)
    /\ domain \in DOMAIN security
    /\ domain \notin stored
    /\ stored' = stored \cup {domain}
    /\ IF Truthy(should_store_ioc_info(categorized[domain], security[domain]))
       THEN /\ threat_info' = threat_info @@ (domain :> ThreatRecord(domain))
            /\ security' = [security EXCEPT ![domain] = FixDgaSign(@)]
       ELSE UNCHANGED <<threat_info, security>>
    /\ UNCHANGED <<pc, whitelist, all_iocs, iocs, cat_calls, sec_calls, categorized,
                   security_raw, returned>>
    /\ UNCHANGED fn_vars

\* line 118
Return ==
    /\ pc = "security"
    /\ \A d \in DOMAIN security : SecMarked(d)
    /\ stored = DOMAIN security
    /\ pc' = "done"
    /\ returned' = threat_info
    /\ UNCHANGED <<whitelist, all_iocs, iocs, cat_calls, sec_calls, categorized,
                   security_raw, security, stored, threat_info>>
    /\ UNCHANGED fn_vars

Next ==
    \/ \E all \in SUBSET Domains : Lookup(all)
    \/ Categorization
    \/ \E domain \in Domains : MarkCategorized(domain)
    \/ Security
    \/ \E domain \in Domains : MarkSecurity(domain)
    \/ \E domain \in Domains : Store(domain)
    \/ Return

Spec == Init /\ [][Next]_vars

\* ------------------------------------ stand-alone evaluation of the heuristics
StatusValues == {-1, 0, 1}

ContentLabels == SUSPICIOUS_CATEGORIES \cup {CleanCategory}

SecurityLabels == {"Botnet", "Malware"}

\* every categorization result within the bounds
CatInfos ==
    {CategoryInfo(st, cc, sc) :
        st \in StatusValues,
        cc \in SeqsUpTo(ContentLabels, MaxLabels),
        sc \in SeqsUpTo(SecurityLabels, MaxLabels)}

\* values of a score around the threshold of its check, inside [min, max]
ScoreValues(security_check) ==
    {security_check.threshold + i : i \in (0 - ScoreSpread)..ScoreSpread}
        \cap security_check.min..security_check.max

\* dga_score also arrives with the wrong sign
DgaValues ==
    ScoreValues(SECURITY_CHECKS[1]) \cup {0 - v : v \in ScoreValues(SECURITY_CHECKS[1])}

\* a key that is absent (<<>>) or present with a value v (<<v>>);
\* pagerank stands for the provider fields the filter does not read
Opt(S) == {<<>>} \cup {<<v>> : v \in S}

SecChoices ==
    [dga_score : Opt(DgaValues),
     securerank2 : Opt(ScoreValues(SECURITY_CHECKS[2])),
     asn_score : Opt(ScoreValues(SECURITY_CHECKS[3])),
     prefix_score : Opt(ScoreValues(SECURITY_CHECKS[4])),
     rip_score : Opt(ScoreValues(SECURITY_CHECKS[5])),
     attack : Opt({"", "ransomware"}),
     threat_type : Opt({"Botnet"}),
     found : Opt(BOOLEAN),
     pagerank : {<<3>>}]

MkDict(choice) == [k \in {key \in DOMAIN choice : choice[key] # <<>>} |-> choice[k][1]]

\* every security result within the bounds
SecInfos == {MkDict(choice) : choice \in SecChoices}

InitFn ==
    /\ whitelist = {}
    /\ RunIdle
    /\ \/ fn_pc = "category" /\ fn_in \in CatInfos
       \/ fn_pc = "security" /\ fn_in \in SecInfos
    /\ fn_susp = PyNone
    /\ fn_get = PyNone
    /\ fn_trim = EmptyDict
    /\ fn_trim2 = EmptyDict

\* _is_category_info_suspicious and _should_get_security_info on fn_in
ClassifyCategory ==
    /\ fn_pc = "category"
    /\ fn_pc' = "category_done"
    /\ fn_susp' = is_category_info_suspicious(fn_in)
    /\ fn_get' = should_get_security_info(1, fn_in)
    /\ UNCHANGED <<fn_in, fn_trim, fn_trim2>>
    /\ UNCHANGED run_vars

\* _is_security_info_suspicious on fn_in
ClassifySecurity ==
    /\ fn_pc = "security"
    /\ fn_pc' = "classified"
    /\ fn_susp' = PyBool(is_security_info_suspicious(fn_in))
    /\ UNCHANGED <<fn_in, fn_get, fn_trim, fn_trim2>>
    /\ UNCHANGED run_vars

\* _trim_security_result on fn_in
Trim ==
    /\ fn_pc = "classified"
    /\ fn_pc' = "trimmed"
    /\ fn_trim' = trim_security_result(fn_in)
    /\ UNCHANGED <<fn_in, fn_susp, fn_get, fn_trim2>>
    /\ UNCHANGED run_vars

\* _trim_security_result on its own result
TrimAgain ==
    /\ fn_pc = "trimmed"
    /\ fn_pc' = "retrimmed"
    /\ fn_trim2' = trim_security_result(fn_trim)
    /\ UNCHANGED <<fn_in, fn_susp, fn_get, fn_trim>>
    /\ UNCHANGED run_vars

NextFn ==
    \/ ClassifyCategory
    \/ ClassifySecurity
    \/ Trim
    \/ TrimAgain

SpecFn == InitFn /\ [][NextFn]_vars

\* ------------------------------------------------------------------ claims
ScoreNames == {"dga_score", "securerank2", "asn_score", "prefix_score", "rip_score"}

IndicatorNames == {"attack", "threat_type"}

AllCalls == Range(cat_calls) \cup Range(sec_calls)

\* C1: a domain the whitelist matches is in the argument of no categorization
\* call and of no security call, and is no key of the mapping built or returned
C1_WhitelistedNeverLookedUp ==
    \A d \in Domains :
        match_values(d) =>
            /\ \A call \in AllCalls : d \notin call
            /\ d \notin DOMAIN threat_info
            /\ d \notin DOMAIN returned

\* a finished run over a whitelisted and a reported domain
C1_Witness ==
    /\ pc = "done"
    /\ \E d \in all_iocs : match_values(d)
    /\ DOMAIN returned # {}

\* C2: the keys of the returned mapping are exactly the domains of the security
\* result whose categorization or security flag is set; a suspicious
\* categorization is always emitted, a domain not selected never is
C2_ReturnedKeys ==
    pc = "done" =>
        /\ DOMAIN returned =
               {d \in DOMAIN security_raw :
                    \/ Truthy(categorized[d]["suspicious"])
                    \/ Truthy(security[d]["suspicious"])}
        /\ \A d \in DOMAIN categorized :
               Truthy(categorized[d]["suspicious"]) => d \in DOMAIN returned
        /\ \A d \in DOMAIN categorized :
               d \notin DOMAIN security_raw => d \notin DOMAIN returned

\* a run that emits a domain on its categorization alone and drops a domain
\* with status 0 and one clean content category at the selection
C2_Witness ==
    /\ pc = "done"
    /\ \E d \in DOMAIN returned :
           /\ Truthy(categorized[d]["suspicious"])
           /\ ~Truthy(security[d]["suspicious"])
    /\ \E d \in DOMAIN categorized :
           /\ categorized[d]["status"] = 0
           /\ categorized[d]["content_categories"] = <<CleanCategory>>
           /\ categorized[d]["security_categories"] = <<>>
           /\ d \notin DOMAIN security_raw
           /\ d \notin DOMAIN returned

LabelSuspicious(labels) == \E i \in DOMAIN labels : labels[i] \in SUSPICIOUS_CATEGORIES

\* C3: the argument of the security call is the set of categorized domains with
\* status -1, or a security category, or a suspicious content category, or with
\* status 0 and both category lists empty
C3_SecurityArgument ==
    pc \in {"security", "done"} =>
        sec_calls =
            << {d \in DOMAIN categorized :
                    \/ categorized[d]["status"] = -1
                    \/ categorized[d]["security_categories"] # <<>>
                    \/ LabelSuspicious(categorized[d]["content_categories"])
                    \/ /\ categorized[d]["status"] = 0
                       /\ categorized[d]["content_categories"] = <<>>
                       /\ categorized[d]["security_categories"] = <<>>} >>

\* an unknown domain (flag false) is sent, a clean status-0 domain is not
C3_Witness ==
    /\ pc = "security"
    /\ \E d \in sec_calls[1] :
           /\ categorized[d]["status"] = 0
           /\ categorized[d]["content_categories"] = <<>>
           /\ categorized[d]["security_categories"] = <<>>
           /\ categorized[d]["suspicious"] = PyFalse
    /\ \E d \in DOMAIN categorized :
           /\ categorized[d]["status"] = 0
           /\ categorized[d]["content_categories"] = <<CleanCategory>>
           /\ d \notin sec_calls[1]

SecurityClassified == fn_pc \in {"classified", "trimmed", "retrimmed"}

\* C4: the security classifier answers True exactly when attack or threat_type
\* is present and non-empty, or a score is present and at most its threshold,
\* or found is false or absent
C4_SecuritySuspicious ==
    SecurityClassified =>
        /\ fn_susp \in {PyTrue, PyFalse}
        /\ fn_susp = PyTrue <=>
               \/ \E k \in IndicatorNames : k \in DOMAIN fn_in /\ fn_in[k] # ""
               \/ \E i \in DOMAIN SECURITY_CHECKS :
                      /\ SECURITY_CHECKS[i].key \in DOMAIN fn_in
                      /\ fn_in[SECURITY_CHECKS[i].key] <= SECURITY_CHECKS[i].threshold
               \/ "found" \notin DOMAIN fn_in
               \/ ~fn_in["found"]

\* a score equal to its threshold is the only signal and marks the result
C4_Witness ==
    /\ fn_pc = "classified"
    /\ fn_in = [found |-> TRUE, securerank2 |-> -10, pagerank |-> 3]
    /\ fn_susp = PyTrue

\* C5: the value attached as `suspicious` to a categorization result is a
\* boolean, true exactly when status is -1, or security_categories is non-empty,
\* or a content category is in SUSPICIOUS_CATEGORIES
C5_CategorySuspiciousIsBool ==
    fn_pc = "category_done" =>
        /\ fn_susp.kind = "bool"
        /\ Truthy(fn_susp) <=>
               \/ fn_in["status"] = -1
               \/ fn_in["security_categories"] # <<>>
               \/ LabelSuspicious(fn_in["content_categories"])

SecurityTrimmed == fn_pc \in {"trimmed", "retrimmed"}

\* C7: the trimmed record has as keys the score names and indicator names
\* present in the raw result, and found; values are copied, a positive dga_score
\* is negated, found is false when absent; every other field is dropped
C7_TrimShape ==
    SecurityTrimmed =>
        /\ DOMAIN fn_trim =
               (DOMAIN fn_in \cap (ScoreNames \cup IndicatorNames)) \cup {"found"}
        /\ \A k \in DOMAIN fn_trim \ {"found", "dga_score"} : fn_trim[k] = fn_in[k]
        /\ "dga_score" \in DOMAIN fn_in =>
               fn_trim["dga_score"] =
                   IF fn_in["dga_score"] > 0 THEN 0 - fn_in["dga_score"]
                   ELSE fn_in["dga_score"]
        /\ fn_trim["found"] = ("found" \in DOMAIN fn_in /\ fn_in["found"])

\* a positive dga_score, an absent found and an unread field are trimmed
C7_Witness ==
    /\ fn_pc = "trimmed"
    /\ "found" \notin DOMAIN fn_in
    /\ "pagerank" \in DOMAIN fn_in
    /\ "dga_score" \in DOMAIN fn_in
    /\ fn_in["dga_score"] > 0
    /\ fn_trim["dga_score"] < 0

\* C8: trimming a trimmed record gives the same record
C8_TrimIdempotent ==
    fn_pc = "retrimmed" => fn_trim2 = fn_trim

\* a dga_score the first trim corrected went through the second trim
C8_Witness ==
    /\ fn_pc = "retrimmed"
    /\ "dga_score" \in DOMAIN fn_in
    /\ fn_in["dga_score"] > 0
    /\ fn_trim2["dga_score"] = 0 - fn_in["dga_score"]

\* C9: the security call is issued once, after the one categorization call, and
\* only when every categorization result is marked; each domain it sends has a
\* marked categorization result
C9_TwoStageOrder ==
    [][ /\ sec_calls' # sec_calls =>
              /\ sec_calls = <<>>
              /\ Len(cat_calls) = 1
              /\ Len(sec_calls') = 1
              /\ \A d \in DOMAIN categorized : CatMarked(d)
              /\ \A d \in sec_calls'[1] :
                     /\ d \in cat_calls[1]
                     /\ d \in DOMAIN categorized
                     /\ CatMarked(d)
        /\ cat_calls' # cat_calls =>
              /\ cat_calls = <<>>
              /\ sec_calls = <<>>
              /\ cat_calls' = <<all_iocs \ whitelist>> ]_vars

\* a security call for two domains has been issued
C9_Witness ==
    /\ pc = "security"
    /\ Len(sec_calls) = 1
    /\ Cardinality(sec_calls[1]) >= 2

\* found, a wrong-signed dga_score of at least 70, nothing else alarming
WrongSignOnly(raw) ==
    /\ "found" \in DOMAIN raw
    /\ raw["found"]
    /\ \A k \in IndicatorNames : k \in DOMAIN raw => raw[k] = ""
    /\ "dga_score" \in DOMAIN raw
    /\ raw["dga_score"] >= 70
    /\ \A i \in DOMAIN SECURITY_CHECKS :
           SECURITY_CHECKS[i].key \in DOMAIN raw =>
               raw[SECURITY_CHECKS[i].key] > SECURITY_CHECKS[i].threshold

\* C10: the dga_score of the security mapping keeps the provider's sign until
\* the record is stored; a result whose only alarming value is a dga_score +v,
\* v >= 70, is marked not suspicious, and the record stored for it has -v
C10_SignFixedAfterVerdict ==
    \A d \in DOMAIN security :
        /\ (d \notin stored /\ "dga_score" \in DOMAIN security[d]) =>
               security[d]["dga_score"] = security_raw[d]["dga_score"]
        /\ WrongSignOnly(security_raw[d]) =>
               /\ SecMarked(d) => security[d]["suspicious"] = PyFalse
               /\ d \in DOMAIN threat_info =>
                      /\ threat_info[d]["security"]["dga_score"] =
                             0 - security_raw[d]["dga_score"]
                      /\ threat_info[d]["security"]["dga_score"] <= -70

\* such a result was stored on the strength of its categorization
C10_Witness ==
    \E d \in DOMAIN threat_info :
        /\ WrongSignOnly(security_raw[d])
        /\ security[d]["suspicious"] = PyFalse
        /\ threat_info[d]["security"]["dga_score"] <= -70

====
